---- MODULE Spec2Model ----
(***************************************************************************)
(* Model of Samwise (src-tauri/src).  First the LLM routing client        *)
(* (llm_client.rs), then the application around it: the apply_prompt      *)
(* command, the persisted configuration, the global shortcut and the      *)
(* main window (lib.rs, config.rs, prompts.rs, hotkey.rs, menu.rs).       *)
(* One LLMClient holds a configuration; process_text routes a request to  *)
(* one of four adapters (Claude CLI subprocess, AtlasCloud gateway,       *)
(* Anthropic API, OpenAI API) and turns the backend's answer into         *)
(* Ok(text) or Err(message).  Strings are TLA+ strings, so prefix and     *)
(* substring tests are computed as the code computes them.                *)
(***************************************************************************)
EXTENDS Integers, Sequences, FiniteSets, TLC

VARIABLES
    config,     \* LLMClient.config.llm : the routing policy of the client
    pc,         \* position of the current process_text call
    request,    \* LLMRequest built by process_text
    model_id,   \* model identifier passed to process_text
    adapter,    \* adapter the call was dispatched to ("none" before / without dispatch)
    wire,       \* the invocation handed to the outside world (command line or HTTP request)
    spawns,     \* Command::output() calls made during the current call
    requests,   \* HTTP requests sent during the current call
    reply,      \* what the backend answered (process outcome or HTTP response)
    result,     \* Result<String, String> of the current call
    prompts_yaml,   \* what get_all_prompts finds at the prompts.yaml path
    config_file,    \* config.json in the application data directory
    saved,          \* the configuration of the last AppConfig::save that completed
    main,           \* the main thread: idle, or inside fs::write of AppConfig::save
    registered,     \* global shortcuts currently registered with the system
    hk,             \* the last update_global_shortcut call: what it returned and what it found
    window,         \* the main window: "visible", "hidden" or "destroyed"
    running,        \* the process has not exited
    event,          \* the last window, tray, menu or shortcut event, and the window it found
    ap              \* the apply_prompt command in progress

llm_vars == <<config, pc, request, model_id, adapter, wire, spawns, requests, reply, result>>
app_vars == <<prompts_yaml, config_file, saved, main, registered, hk, window, running, event, ap>>
vars == <<llm_vars, app_vars>>

----------------------------------------------------------------------------
(* Bounds *)

MaxFrags == 2       \* model identifiers are built from at most this many fragments
MaxPieces == 4      \* CLI outputs of the cleanup check are built from at most this many pieces

----------------------------------------------------------------------------
(* Strings *)

starts_with(s, p) ==
    /\ Len(p) <= Len(s)
    /\ SubSeq(s, 1, Len(p)) = p

contains(s, p) ==
    \E i \in 0..(Len(s) - Len(p)) : SubSeq(s, i + 1, i + Len(p)) = p

----------------------------------------------------------------------------
(* Option<String> and Result<String, String> *)

None == [some |-> FALSE]
Some(v) == [some |-> TRUE, val |-> v]

Ok(s) == [tag |-> "Ok", val |-> s]
Err(m) == [tag |-> "Err", val |-> m]
NoResult == [tag |-> "none"]

----------------------------------------------------------------------------
(* Inputs *)

Fragments == {"anthropic/claude", "claude", "gpt", "/", "x"}

RECURSIVE IdsOfFrags(_)
IdsOfFrags(n) ==
    IF n = 0 THEN {""}
    ELSE LET shorter == IdsOfFrags(n - 1)
         IN  shorter \cup {s \o f : s \in shorter, f \in Fragments}

CatalogIds ==
    {"claude-3-5-sonnet", "gpt-4", "anthropic/claude-3-haiku", "openai/gpt-5.1",
     "google/gemini-2.5-flash", "unknown-model-xyz"}

ModelIds == CatalogIds \cup IdsOfFrags(MaxFrags)

Prompts == {"", "Fix grammar"}
Texts == {"Hello", " hi\n"}

\* claude_cli_model is varied where the CLI is enabled
LLMConfigs ==
    {cfg \in [openai_api_key : {None, Some("test-openai-key")},
              anthropic_api_key : {None, Some("test-anthropic-key")},
              atlascloud_api_key : {None, Some("test-atlascloud-key")},
              use_claude_cli : BOOLEAN,
              claude_cli_model : {"claude-3-5-sonnet-20241022", "claude-3-opus-20240229"},
              force_atlascloud_for_claude : BOOLEAN] :
        cfg.use_claude_cli \/ cfg.claude_cli_model = "claude-3-5-sonnet-20241022"}

----------------------------------------------------------------------------
(* Routing: the match of process_text, one operator per arm *)

Dispatch(a, key) == [adapter |-> a, api_key |-> key, err |-> ""]
Fail(msg) == [adapter |-> "none", api_key |-> "", err |-> msg]

\* variant: the gateway is preferred over the CLI whenever its key is present
route_anthropic_claude_gateway_first(cfg, id) ==
    IF cfg.atlascloud_api_key.some
    THEN Dispatch("atlascloud", cfg.atlascloud_api_key.val)
    ELSE IF cfg.force_atlascloud_for_claude
    THEN Fail("Force AtlasCloud is enabled but no AtlasCloud API key configured")
    ELSE IF cfg.use_claude_cli
    THEN Dispatch("claude_cli", "")
    ELSE Fail("Claude CLI is disabled and no AtlasCloud API key configured")

\* variant: force_atlascloud_for_claude is not consulted
route_anthropic_claude_force_ignored(cfg, id) ==
    IF cfg.use_claude_cli
    THEN Dispatch("claude_cli", "")
    ELSE IF cfg.atlascloud_api_key.some
    THEN Dispatch("atlascloud", cfg.atlascloud_api_key.val)
    ELSE Fail("Claude CLI is disabled and no AtlasCloud API key configured")

\* variant: a forced gateway without a key falls back to the CLI
route_anthropic_claude_force_fallback(cfg, id) ==
    IF cfg.force_atlascloud_for_claude /\ cfg.atlascloud_api_key.some
    THEN Dispatch("atlascloud", cfg.atlascloud_api_key.val)
    ELSE IF cfg.use_claude_cli
    THEN Dispatch("claude_cli", "")
    ELSE IF cfg.atlascloud_api_key.some
    THEN Dispatch("atlascloud", cfg.atlascloud_api_key.val)
    ELSE Fail("Claude CLI is disabled and no AtlasCloud API key configured")

\* arm: id if id.starts_with("anthropic/claude")
route_anthropic_claude(cfg, id) ==
    IF cfg.force_atlascloud_for_claude
    THEN IF cfg.atlascloud_api_key.some
         THEN Dispatch("atlascloud", cfg.atlascloud_api_key.val)
         ELSE Fail("Force AtlasCloud is enabled but no AtlasCloud API key configured")
    ELSE IF cfg.use_claude_cli
    THEN Dispatch("claude_cli", "")
    ELSE IF cfg.atlascloud_api_key.some
    THEN Dispatch("atlascloud", cfg.atlascloud_api_key.val)
    ELSE Fail("Claude CLI is disabled and no AtlasCloud API key configured")

\* variant: the Anthropic API is preferred over the CLI whenever its key is present
route_claude_api_first(cfg, id) ==
    IF cfg.anthropic_api_key.some
    THEN Dispatch("anthropic", cfg.anthropic_api_key.val)
    ELSE IF cfg.use_claude_cli
    THEN Dispatch("claude_cli", "")
    ELSE Fail("Claude CLI is disabled and no Anthropic API key configured")

\* variant: the force flag sends bare Claude models through the gateway as well
route_claude_force_gateway(cfg, id) ==
    IF cfg.force_atlascloud_for_claude
    THEN IF cfg.atlascloud_api_key.some
         THEN Dispatch("atlascloud", cfg.atlascloud_api_key.val)
         ELSE Fail("Force AtlasCloud is enabled but no AtlasCloud API key configured")
    ELSE IF cfg.use_claude_cli
    THEN Dispatch("claude_cli", "")
    ELSE IF cfg.anthropic_api_key.some
    THEN Dispatch("anthropic", cfg.anthropic_api_key.val)
    ELSE Fail("Claude CLI is disabled and no Anthropic API key configured")

\* arm: id if id.starts_with("claude")
route_claude(cfg, id) ==
    IF cfg.use_claude_cli
    THEN Dispatch("claude_cli", "")
    ELSE IF cfg.anthropic_api_key.some
    THEN Dispatch("anthropic", cfg.anthropic_api_key.val)
    ELSE Fail("Claude CLI is disabled and no Anthropic API key configured")

\* guard of the AtlasCloud arm
is_atlascloud_id(id) ==
    \/ contains(id, "/")
    \/ id = "openai/gpt-5.1"
    \/ id = "deepseek-ai/deepseek-v3.2-speciale"
    \/ id = "openai/gpt-5-mini-developer"
    \/ id = "google/gemini-2.5-flash"

\* variant: a missing key is sent as the empty string
route_atlascloud_empty_key(cfg, id) ==
    Dispatch("atlascloud",
             IF cfg.atlascloud_api_key.some THEN cfg.atlascloud_api_key.val ELSE "")

\* arm of the AtlasCloud models
route_atlascloud(cfg, id) ==
    IF cfg.atlascloud_api_key.some
    THEN Dispatch("atlascloud", cfg.atlascloud_api_key.val)
    ELSE Fail("No AtlasCloud API key configured")

\* variant: the force flag sends gpt models through the gateway as well
route_openai_force_gateway(cfg, id) ==
    IF cfg.force_atlascloud_for_claude /\ cfg.atlascloud_api_key.some
    THEN Dispatch("atlascloud", cfg.atlascloud_api_key.val)
    ELSE IF cfg.openai_api_key.some
    THEN Dispatch("openai", cfg.openai_api_key.val)
    ELSE Fail("No OpenAI API key configured")

\* arm: id if id.starts_with("gpt")
route_openai(cfg, id) ==
    IF cfg.openai_api_key.some
    THEN Dispatch("openai", cfg.openai_api_key.val)
    ELSE Fail("No OpenAI API key configured")

\* variant: unknown identifiers are handed to the OpenAI arm
route_unsupported_as_openai(cfg, id) ==
    IF cfg.openai_api_key.some
    THEN Dispatch("openai", cfg.openai_api_key.val)
    ELSE Fail("No OpenAI API key configured")

\* arm: _
route_unsupported(cfg, id) == Fail("Unsupported model: " \o id)

\* the match itself: the first arm whose guard holds
Route(cfg, id) ==
    IF starts_with(id, "anthropic/claude") THEN route_anthropic_claude(cfg, id)
    ELSE IF starts_with(id, "claude") THEN route_claude(cfg, id)
    ELSE IF is_atlascloud_id(id) THEN route_atlascloud(cfg, id)
    ELSE IF starts_with(id, "gpt") THEN route_openai(cfg, id)
    ELSE route_unsupported(cfg, id)

----------------------------------------------------------------------------
(* Claude CLI adapter *)

IsWhitespace(c) == c \in {" ", "\n", "\t", "\r"}

RECURSIVE trim_start(_)
trim_start(s) ==
    IF Len(s) > 0 /\ IsWhitespace(SubSeq(s, 1, 1))
    THEN trim_start(SubSeq(s, 2, Len(s)))
    ELSE s

RECURSIVE trim_end(_)
trim_end(s) ==
    IF Len(s) > 0 /\ IsWhitespace(SubSeq(s, Len(s), Len(s)))
    THEN trim_end(SubSeq(s, 1, Len(s) - 1))
    ELSE s

trim(s) == trim_end(trim_start(s))

RECURSIVE trim_start_matches(_, _)
trim_start_matches(s, p) ==
    IF starts_with(s, p)
    THEN trim_start_matches(SubSeq(s, Len(p) + 1, Len(s)), p)
    ELSE s

ends_with(s, p) ==
    /\ Len(p) <= Len(s)
    /\ SubSeq(s, Len(s) - Len(p) + 1, Len(s)) = p

RECURSIVE trim_end_matches(_, _)
trim_end_matches(s, p) ==
    IF ends_with(s, p)
    THEN trim_end_matches(SubSeq(s, 1, Len(s) - Len(p)), p)
    ELSE s

\* TLA+ string literals cannot hold the character U+0060, so "~" stands for
\* the backtick everywhere in this module; Fence is the three-backtick fence.
BackTick == "~"
Fence == BackTick \o BackTick \o BackTick

\* "Clean up output"
cleaned(s) == trim(trim_end_matches(trim_start_matches(trim(s), Fence), Fence))

enhanced_prompt(req) ==
    IF req.system_prompt = ""
    THEN ""
    ELSE req.system_prompt \o "\n\nIMPORTANT: Return ONLY the processed text. Do not include any explanations, meta-commentary, questions, or conversational text. Just return the result directly."

\* variant: the instruction argument is passed even when it is empty
claude_command_always_system(req) ==
    [kind |-> "process", program |-> "claude",
     args |-> <<"-p", req.user_content, "--system-prompt", enhanced_prompt(req)>>]

\* variant: the instruction argument is passed before the text
claude_command_system_first(req) ==
    IF enhanced_prompt(req) = ""
    THEN [kind |-> "process", program |-> "claude",
          args |-> <<"-p", req.user_content>>]
    ELSE [kind |-> "process", program |-> "claude",
          args |-> <<"--system-prompt", enhanced_prompt(req), "-p", req.user_content>>]

\* the Command that call_claude_cli builds
claude_command(req) ==
    IF enhanced_prompt(req) = ""
    THEN [kind |-> "process", program |-> "claude",
          args |-> <<"-p", req.user_content>>]
    ELSE [kind |-> "process", program |-> "claude",
          args |-> <<"-p", req.user_content, "--system-prompt", enhanced_prompt(req)>>]

\* variant: the launch failure is reported without the install hint
claude_cli_launch_error_no_hint(e) ==
    Err("Failed to execute Claude CLI: " \o e)

\* Command::output() returned Err(e)
claude_cli_launch_error(e) ==
    Err("Failed to execute Claude CLI: " \o e \o ". Make sure Claude CLI is installed (brew install claude)")

\* variant: an empty cleaned output is reported as an error
claude_cli_output_empty_is_error(output) ==
    IF output.success
    THEN IF output.stdout.utf8
         THEN IF cleaned(output.stdout.text) = ""
              THEN Err("Claude CLI returned an empty response")
              ELSE Ok(cleaned(output.stdout.text))
         ELSE Err("Failed to parse Claude CLI output: " \o output.stdout.text)
    ELSE Err("Claude CLI error: " \o output.stderr \o "\n\nMake sure Claude CLI is installed and authenticated.")

\* variant: whatever the process printed is returned even when it failed
claude_cli_output_stdout_on_failure(output) ==
    IF output.stdout.utf8 /\ (output.success \/ cleaned(output.stdout.text) # "")
    THEN Ok(cleaned(output.stdout.text))
    ELSE IF output.success
    THEN Err("Failed to parse Claude CLI output: " \o output.stdout.text)
    ELSE Err("Claude CLI error: " \o output.stderr \o "\n\nMake sure Claude CLI is installed and authenticated.")

\* Command::output() returned Ok(output)
claude_cli_output(output) ==
    IF output.success
    THEN IF output.stdout.utf8
         THEN Ok(cleaned(output.stdout.text))
         ELSE Err("Failed to parse Claude CLI output: " \o output.stdout.text)
    ELSE Err("Claude CLI error: " \o output.stderr \o "\n\nMake sure Claude CLI is installed and authenticated.")

\* variant: the configured claude_cli_model is passed to the executable
call_claude_cli_with_model(cfg, req) ==
    [claude_command(req) EXCEPT !.args = @ \o <<"--model", cfg.claude_cli_model>>]

\* self.call_claude_cli(&request): the invocation made for a client holding cfg
call_claude_cli(cfg, req) == claude_command(req)

IoErrors == {"No such file or directory (os error 2)", "Permission denied (os error 13)"}

ProcessOutputs ==
    [success : BOOLEAN,
     stdout : {[utf8 |-> TRUE, text |-> Fence \o "\nHello there\n" \o Fence \o "\n"],
               [utf8 |-> TRUE, text |-> "  \n"],
               [utf8 |-> FALSE, text |-> "invalid utf-8 sequence of 1 bytes from index 0"]},
     stderr : {"", "Not logged in"}]

----------------------------------------------------------------------------
(* serde_json::Value.  An object is the list of its <<key, value>> pairs   *)
(* in key order, as serde_json's map iterates them.                        *)

JNull == [t |-> "null"]
JStr(s) == [t |-> "str", v |-> s]
JArr(items) == [t |-> "arr", v |-> items]
JObj(pairs) == [t |-> "obj", v |-> pairs]
JBool(b) == [t |-> "bool", v |-> b]
JAbsent == [t |-> "absent"]      \* Option::None of a Value lookup
JInvalid == [t |-> "invalid"]    \* the text is not JSON

\* Value::get(key), chained with and_then: None stays None
json_get(j, key) ==
    IF j.t = "obj" /\ \E i \in 1..Len(j.v) : j.v[i][1] = key
    THEN j.v[CHOOSE i \in 1..Len(j.v) : j.v[i][1] = key][2]
    ELSE JAbsent

\* .and_then(|a| a.as_array()).and_then(|arr| arr.get(0))
json_first(j) ==
    IF j.t = "arr" /\ Len(j.v) >= 1 THEN j.v[1] ELSE JAbsent

\* .and_then(|v| v.as_str()).map(|s| s.to_string())
json_as_str(j) ==
    IF j.t = "str" THEN Some(j.v) ELSE None

or_else(a, b) == IF a.some THEN a ELSE b

Spaces(n) == [i \in 1..n |-> " "]

RECURSIVE JoinStr(_)
JoinStr(chars) ==
    IF Len(chars) = 0 THEN "" ELSE Head(chars) \o JoinStr(Tail(chars))

Indent(n) == JoinStr(Spaces(n))

RECURSIVE to_string_pretty_at(_, _), pretty_items(_, _, _)
\* serde_json::to_string_pretty: two-space indentation, one entry per line
to_string_pretty_at(j, depth) ==
    CASE j.t = "null" -> "null"
      [] j.t = "str" -> "\"" \o j.v \o "\""
      [] j.t = "bool" -> IF j.v THEN "true" ELSE "false"
      [] j.t = "arr" ->
            IF Len(j.v) = 0 THEN "[]"
            ELSE "[\n" \o pretty_items(j, 1, depth + 2) \o "\n" \o Indent(depth) \o "]"
      [] j.t = "obj" ->
            IF Len(j.v) = 0 THEN "{}"
            ELSE "{\n" \o pretty_items(j, 1, depth + 2) \o "\n" \o Indent(depth) \o "}"

pretty_items(j, i, depth) ==
    LET item == IF j.t = "arr"
                THEN to_string_pretty_at(j.v[i], depth)
                ELSE "\"" \o j.v[i][1] \o "\": " \o to_string_pretty_at(j.v[i][2], depth)
    IN  Indent(depth) \o item \o
        (IF i < Len(j.v) THEN ",\n" \o pretty_items(j, i + 1, depth) ELSE "")

to_string_pretty(j) == to_string_pretty_at(j, 0)

----------------------------------------------------------------------------
(* HTTP responses *)

\* the response bodies the backends answer with, and the Value each parses to
Bodies ==
    << [raw |-> "{\"choices\":[{\"message\":{\"content\":\"done\"}}]}",
        json |-> JObj(<< <<"choices", JArr(<< JObj(<< <<"message",
                     JObj(<< <<"content", JStr("done")>> >>)>> >>) >>)>> >>)],
       [raw |-> "{\"content\":[{\"text\":\"fixed\"}]}",
        json |-> JObj(<< <<"content", JArr(<< JObj(<< <<"text", JStr("fixed")>> >>) >>)>> >>)],
       [raw |-> "{\"output\":[{\"content\":[{\"text\":\"out\"}]}]}",
        json |-> JObj(<< <<"output", JArr(<< JObj(<< <<"content",
                     JArr(<< JObj(<< <<"text", JStr("out")>> >>) >>)>> >>) >>)>> >>)],
       [raw |-> "{\"error\":\"model not found\"}",
        json |-> JObj(<< <<"error", JStr("model not found")>> >>)],
       [raw |-> "{\"error\":\"rate limited\"}",
        json |-> JObj(<< <<"error", JStr("rate limited")>> >>)],
       [raw |-> "<html>bad request</html>",
        json |-> JInvalid],
       [raw |-> "{\"choices\":[{\"message\":{\"content\":\"\"}}]}",
        json |-> JObj(<< <<"choices", JArr(<< JObj(<< <<"message",
                     JObj(<< <<"content", JStr("")>> >>)>> >>) >>)>> >>)],
       [raw |-> "{\"choices\":[{\"message\":{\"content\":\"first\"}}],\"output\":[{\"content\":[{\"text\":\"second\"}]}],\"text\":\"third\"}",
        json |-> JObj(<< <<"choices", JArr(<< JObj(<< <<"message",
                              JObj(<< <<"content", JStr("first")>> >>)>> >>) >>)>>,
                         <<"output", JArr(<< JObj(<< <<"content",
                              JArr(<< JObj(<< <<"text", JStr("second")>> >>) >>)>> >>) >>)>>,
                         <<"text", JStr("third")>> >>)],
       [raw |-> "{\"choices\":[{\"message\":{\"content\":null}}],\"output\":[{\"content\":[{\"text\":\"second\"}]}],\"text\":\"third\"}",
        json |-> JObj(<< <<"choices", JArr(<< JObj(<< <<"message",
                              JObj(<< <<"content", JNull>> >>)>> >>) >>)>>,
                         <<"output", JArr(<< JObj(<< <<"content",
                              JArr(<< JObj(<< <<"text", JStr("second")>> >>) >>)>> >>) >>)>>,
                         <<"text", JStr("third")>> >>)],
       [raw |-> "{\"choices\":[],\"text\":\"third\"}",
        json |-> JObj(<< <<"choices", JArr(<< >>)>>,
                         <<"text", JStr("third")>> >>)],
       [raw |-> "{\"content\":[{\"text\":\"\"}]}",
        json |-> JObj(<< <<"content", JArr(<< JObj(<< <<"text", JStr("")>> >>) >>)>> >>)] >>

BodyTexts == {Bodies[i].raw : i \in 1..Len(Bodies)}

StatusCodes == {200, 404, 500}

\* Display of reqwest's StatusCode: the number and its canonical reason
StatusDisplay(code) ==
    CASE code = 200 -> "200 OK"
      [] code = 404 -> "404 Not Found"
      [] code = 500 -> "500 Internal Server Error"

\* a response: its status line and its body, None when the body cannot be read
Responses == [status : StatusCodes, text : {Some(b) : b \in BodyTexts} \cup {None}]

\* StatusCode::is_success
is_success(code) == 200 <= code /\ code < 300

\* response.text().await.unwrap_or_else(|_| "Unknown error".to_string())
error_text(resp) == IF resp.text.some THEN resp.text.val ELSE "Unknown error"

DecodeError == "error decoding response body"

\* response.json().await : the Value, or JInvalid when the body is unreadable or not JSON
response_json(resp) ==
    IF resp.text.some
    THEN Bodies[CHOOSE i \in 1..Len(Bodies) : Bodies[i].raw = resp.text.val].json
    ELSE JInvalid

unexpected_format(j) == "Unexpected response format. Response: " \o to_string_pretty(j)

----------------------------------------------------------------------------
(* AtlasCloud adapter *)

\* variant: the vendor prefix of the gpt-5.1 entry is dropped
atlas_model_id_strip_vendor(id) ==
    CASE id = "openai/gpt-5.1" -> "gpt-5.1"
      [] OTHER -> id

\* "Map internal model IDs to AtlasCloud model names"
atlas_model_id(id) ==
    CASE id = "openai/gpt-5.1" -> "openai/gpt-5.1"
      [] id = "openai/gpt-5-mini-developer" -> "openai/gpt-5-mini-developer"
      [] id = "deepseek-ai/deepseek-v3.2-speciale" -> "deepseek-ai/deepseek-v3.2-speciale"
      [] id = "google/gemini-2.5-flash" -> "google/gemini-2.5-flash"
      [] id = "anthropic/claude-3-5-sonnet" -> "anthropic/claude-3-5-sonnet"
      [] id = "anthropic/claude-3-opus" -> "anthropic/claude-3-opus"
      [] id = "anthropic/claude-3-haiku" -> "anthropic/claude-3-haiku"
      [] OTHER -> id

atlascloud_messages(req) ==
    (IF req.system_prompt # ""
     THEN << [role |-> "system", content |-> req.system_prompt] >>
     ELSE << >>)
    \o << [role |-> "user", content |-> req.user_content] >>

atlascloud_request_body(req, id) ==
    IF atlas_model_id(id) = "openai/gpt-5.1"
    THEN [model |-> atlas_model_id(id), messages |-> atlascloud_messages(req),
          max_tokens |-> 128000, temperature |-> "1.0", repetition_penalty |-> "1.1"]
    ELSE [model |-> atlas_model_id(id), messages |-> atlascloud_messages(req),
          max_tokens |-> 2048, temperature |-> "0.7"]

atlascloud_request(req, api_key, id) ==
    [kind |-> "http",
     url |-> "https://api.atlascloud.ai/v1/chat/completions",
     headers |-> << <<"Authorization", "Bearer " \o api_key>>,
                    <<"Content-Type", "application/json">> >>,
     body |-> atlascloud_request_body(req, id)]

\* "Provide helpful error message"
atlascloud_error_msg(status, text, id) ==
    IF contains(text, "not found") \/ contains(text, "bad request")
    THEN IF id = "openai/gpt-5.1"
         THEN "AtlasCloud API error: Model '" \o atlas_model_id(id)
              \o "' may not be available on AtlasCloud.\nError: " \o text
              \o "\nTry using a different model like 'anthropic/claude-3-haiku' or 'google/gemini-2.5-flash'"
         ELSE "AtlasCloud API error (" \o StatusDisplay(status) \o "): " \o text
              \o "\nModel: " \o atlas_model_id(id)
    ELSE "AtlasCloud API error (" \o StatusDisplay(status) \o "): " \o text

\* first path: choices[0].message.content
atlascloud_choices_text(j) ==
    json_as_str(json_get(json_get(json_first(json_get(j, "choices")), "message"), "content"))

\* "Try AtlasCloud-specific format": output[0].content[0].text
atlascloud_output_text(j) ==
    json_as_str(json_get(json_first(json_get(json_first(json_get(j, "output")),
                                             "content")), "text"))

\* "Fallback: try direct text fields"
atlascloud_direct_text(j) ==
    LET v == IF json_get(j, "text").t # "absent"
             THEN json_get(j, "text") ELSE json_get(j, "content")
        inner == IF json_get(v, "content").t # "absent"
                 THEN json_get(v, "content") ELSE json_get(v, "text")
    IN  CASE v.t = "str" -> Some(v.v)
          [] v.t = "obj" -> json_as_str(inner)
          [] OTHER -> None

\* variant: the AtlasCloud-specific format is tried before the choices path
atlascloud_extract_output_first(j) ==
    or_else(or_else(atlascloud_output_text(j), atlascloud_choices_text(j)),
            atlascloud_direct_text(j))

\* "Extract text from various possible response formats"
atlascloud_extract(j) ==
    or_else(or_else(atlascloud_choices_text(j), atlascloud_output_text(j)),
            atlascloud_direct_text(j))

\* what call_atlascloud makes of the response
atlascloud_response(resp, id) ==
    IF ~is_success(resp.status)
    THEN Err(atlascloud_error_msg(resp.status, error_text(resp), id))
    ELSE LET j == response_json(resp)
         IN  IF j.t = "invalid"
             THEN Err("Failed to parse response: " \o DecodeError)
             ELSE IF atlascloud_extract(j).some
             THEN Ok(atlascloud_extract(j).val)
             ELSE Err(unexpected_format(j))

----------------------------------------------------------------------------
(* OpenAI adapter *)

openai_request(req, api_key, id) ==
    [kind |-> "http",
     url |-> "https://api.openai.com/v1/chat/completions",
     headers |-> << <<"Authorization", "Bearer " \o api_key>>,
                    <<"Content-Type", "application/json">> >>,
     body |-> [model |-> id,
               messages |-> << [role |-> "system", content |-> req.system_prompt],
                               [role |-> "user", content |-> req.user_content] >>,
               max_tokens |-> 4096, temperature |-> "0.7"]]

openai_extract(j) ==
    json_as_str(json_get(json_get(json_first(json_get(j, "choices")), "message"), "content"))

openai_response(resp, id) ==
    IF ~is_success(resp.status)
    THEN Err("OpenAI API error (" \o StatusDisplay(resp.status) \o "): " \o error_text(resp))
    ELSE LET j == response_json(resp)
         IN  IF j.t = "invalid"
             THEN Err("Failed to parse response: " \o DecodeError)
             ELSE IF openai_extract(j).some
             THEN Ok(openai_extract(j).val)
             ELSE Err(unexpected_format(j))

----------------------------------------------------------------------------
(* Anthropic adapter *)

\* variant: instruction and text are flattened into one user message
anthropic_request_flattened(req, api_key, id) ==
    [kind |-> "http",
     url |-> "https://api.anthropic.com/v1/messages",
     headers |-> << <<"x-api-key", api_key>>,
                    <<"anthropic-version", "2023-06-01">>,
                    <<"Content-Type", "application/json">> >>,
     body |-> [model |-> id,
               system |-> "",
               messages |-> << [role |-> "user",
                                content |-> req.system_prompt \o "\n\n" \o req.user_content] >>,
               max_tokens |-> 4096]]

anthropic_request(req, api_key, id) ==
    [kind |-> "http",
     url |-> "https://api.anthropic.com/v1/messages",
     headers |-> << <<"x-api-key", api_key>>,
                    <<"anthropic-version", "2023-06-01">>,
                    <<"Content-Type", "application/json">> >>,
     body |-> [model |-> id,
               system |-> req.system_prompt,
               messages |-> << [role |-> "user", content |-> req.user_content] >>,
               max_tokens |-> 4096]]

\* "Anthropic response format: content[0].text"
anthropic_extract(j) ==
    json_as_str(json_get(json_first(json_get(j, "content")), "text"))

anthropic_response(resp, id) ==
    IF ~is_success(resp.status)
    THEN Err("Anthropic API error (" \o StatusDisplay(resp.status) \o "): " \o error_text(resp))
    ELSE LET j == response_json(resp)
         IN  IF j.t = "invalid"
             THEN Err("Failed to parse response: " \o DecodeError)
             ELSE IF anthropic_extract(j).some
             THEN Ok(anthropic_extract(j).val)
             ELSE Err(unexpected_format(j))

----------------------------------------------------------------------------
(* The state machine *)

NoWire == [kind |-> "none"]
NoReply == [kind |-> "none"]
NoRequest == [system_prompt |-> "", user_content |-> ""]

TransportErrors == {"error sending request for url", "operation timed out"}

\* the HTTP request the REST adapter a builds
http_request(a, req, api_key, id) ==
    CASE a = "atlascloud" -> atlascloud_request(req, api_key, id)
      [] a = "openai" -> openai_request(req, api_key, id)
      [] a = "anthropic" -> anthropic_request(req, api_key, id)

\* what the REST adapter a makes of a response
http_response(a, resp, id) ==
    CASE a = "atlascloud" -> atlascloud_response(resp, id)
      [] a = "openai" -> openai_response(resp, id)
      [] a = "anthropic" -> anthropic_response(resp, id)

----------------------------------------------------------------------------
(* Application data: AppConfig and its file (config.rs)                     *)

\* create_test_config(), its llm field
TestConfig ==
    [openai_api_key |-> Some("test-openai-key"),
     anthropic_api_key |-> Some("test-anthropic-key"),
     atlascloud_api_key |-> Some("test-atlascloud-key"),
     use_claude_cli |-> TRUE,
     claude_cli_model |-> "claude-3-5-sonnet-20241022",
     force_atlascloud_for_claude |-> FALSE]

\* LLMConfig::default(); the two AtlasCloud fields, which llm_client.rs reads
\* and config.rs does not list, are taken as absent and off
LLMConfig_default ==
    [openai_api_key |-> None,
     anthropic_api_key |-> None,
     atlascloud_api_key |-> None,
     use_claude_cli |-> TRUE,
     claude_cli_model |-> "claude-3-5-sonnet-20241022",
     force_atlascloud_for_claude |-> FALSE]

\* AppConfig::default()
AppConfig_default ==
    [llm |-> LLMConfig_default,
     selected_model |-> "claude-3-5-sonnet",
     global_hotkey |-> "CmdOrCtrl+Shift+Space"]

\* create_test_config(), the whole AppConfig
create_test_config ==
    [llm |-> TestConfig,
     selected_model |-> "claude-3-5-sonnet",
     global_hotkey |-> "Super+Alt+S"]

\* the configurations the settings dialog saves
SavedConfigs ==
    {create_test_config,
     [llm |-> [LLMConfig_default EXCEPT !.openai_api_key = Some("test-openai-key"),
                                        !.use_claude_cli = FALSE],
      selected_model |-> "gpt-4",
      global_hotkey |-> "CmdOrCtrl+Shift+Space"],
     [llm |-> [LLMConfig_default EXCEPT !.use_claude_cli = FALSE],
      selected_model |-> "unknown-model-xyz",
      global_hotkey |-> "Super+Alt+S"]}

\* hotkey strings the settings dialog sends; the last one does not parse
Hotkeys == {"Super+Alt+S", "CmdOrCtrl+Shift+Space", "Ctrl+Nope"}

\* hotkey_str.parse::<Shortcut>() succeeds
parses_as_shortcut(hotkey) == hotkey \in {"Super+Alt+S", "CmdOrCtrl+Shift+Space"}

\* every configuration that can be on disk: a saved one or the default,
\* with any hotkey that update_global_shortcut can have written into it
KnownConfigs ==
    {[c EXCEPT !.global_hotkey = h] :
        c \in SavedConfigs \cup {AppConfig_default},
        h \in {k \in Hotkeys : parses_as_shortcut(k)}}

\* Serialize for Option<String>
option_to_json(o) == IF o.some THEN JStr(o.val) ELSE JNull

\* #[derive(Serialize)] of LLMConfig and AppConfig: fields in declaration order
app_config_to_json(c) ==
    JObj(<< <<"llm", JObj(<< <<"openai_api_key", option_to_json(c.llm.openai_api_key)>>,
                             <<"anthropic_api_key", option_to_json(c.llm.anthropic_api_key)>>,
                             <<"atlascloud_api_key", option_to_json(c.llm.atlascloud_api_key)>>,
                             <<"use_claude_cli", JBool(c.llm.use_claude_cli)>>,
                             <<"claude_cli_model", JStr(c.llm.claude_cli_model)>>,
                             <<"force_atlascloud_for_claude", JBool(c.llm.force_atlascloud_for_claude)>> >>)>>,
            <<"selected_model", JStr(c.selected_model)>>,
            <<"global_hotkey", JStr(c.global_hotkey)>> >>)

\* serde_json::to_string_pretty(self)
config_json(c) == to_string_pretty(app_config_to_json(c))

\* the text of every configuration that can be on disk
ConfigTexts == [c \in KnownConfigs |-> config_json(c)]

\* serde_json::from_str::<AppConfig>(&contents): the configuration whose
\* text this is, or a parse error
from_str(contents) ==
    LET matching == {c \in KnownConfigs : ConfigTexts[c] = contents}
    IN  IF matching # {} THEN Some(CHOOSE c \in matching : TRUE) ELSE None

NoFile == [exists |-> FALSE]
FileWith(contents) == [exists |-> TRUE, contents |-> contents]

\* AppConfig::load
load(file) ==
    IF file.exists
    THEN LET parsed == from_str(file.contents)
         IN  IF parsed.some THEN parsed.val ELSE AppConfig_default
    ELSE AppConfig_default

----------------------------------------------------------------------------
(* Application data: the prompt catalog (prompts.rs).  Of a Prompt the      *)
(* fields apply_prompt reads are kept: id, name and system_prompt.          *)

Prompt(id, name, system_prompt) ==
    [id |-> id, name |-> name, system_prompt |-> system_prompt]

\* Prompt::get_default_prompts
get_default_prompts ==
    << Prompt("fix_grammar", "Fix Grammar",
              "You are an expert editor. Correct all grammar, spelling, punctuation, and typographical errors in the text below. Fix errors only - do not change word choice, style, or tone. Preserve the original voice and intent completely. Return ONLY the corrected text with no explanations."),
       Prompt("improve_text", "Improve Writing",
              "You are a writing coach. Improve the text below to make it more clear, engaging, and easier to read. Enhance clarity, improve flow, use strong verbs, remove redundancy. Maintain the original tone and voice. Return ONLY the improved text."),
       Prompt("summarize", "Summarize",
              "You are an expert at distilling information. Create a concise summary capturing all main ideas and critical details. Use approximately 25-35% of the original length. Be factually accurate with no additions. Return ONLY the summary."),
       Prompt("expand", "Expand",
              "You are a content developer. Expand the text with relevant details, examples, and context. Add supporting information that enhances understanding. Maintain the original tone. Aim for 150-200% of original length. Return ONLY the expanded text."),
       Prompt("simplify", "Simplify",
              "You are an expert at clear communication. Simplify the text for maximum accessibility. Use simple words (8th-grade level), short sentences, plain language instead of jargon. Maintain all key information. Return ONLY the simplified text."),
       Prompt("professional", "Make Professional",
              "You are a business communications expert. Rewrite in a professional, polished tone suitable for business contexts. Use formal but clear language, be diplomatic, remove casual phrases. Return ONLY the professional version."),
       Prompt("fact_check", "Fact Check",
              "You are a fact-checker and critical analyst. Analyze the text for accuracy, logic, and issues. List factual claims, assess accuracy, identify logical issues, note missing context, flag unsupported assertions, detect bias. Format clearly with sections."),
       Prompt("make_concise", "Make Concise",
              "You are an expert editor specializing in concise writing. Make the text as concise as possible while preserving all essential information. Remove redundancy, eliminate filler, use direct language. Aim for 40-60% of original length. Return ONLY the concise version.") >>

\* catalogs a prompts.yaml file can hold: one that lists "raw" with an
\* instruction of its own, one that lists it with an empty instruction, and
\* one a user wrote without it
YamlCatalogs ==
    { << Prompt("raw", "Raw", "Send the text as it is."),
         Prompt("fix_grammar", "Fix Grammar", "Fix grammar") >>,
      << Prompt("fix_grammar", "Fix Grammar", "Fix grammar"),
         Prompt("raw", "Raw", "") >>,
      << Prompt("shout", "Shout", "Rewrite in capitals.") >> }

\* what fs::read_to_string and serde_yaml::from_str make of prompts.yaml
PromptsYamlStates ==
    {[kind |-> "missing"], [kind |-> "unparsable"]}
        \cup {[kind |-> "parsed", prompts |-> c] : c \in YamlCatalogs}

\* Prompt::get_all_prompts
get_all_prompts(yaml) ==
    IF yaml.kind = "parsed" THEN yaml.prompts ELSE get_default_prompts

\* prompts.iter().find(|p| p.id == prompt_id)
find_prompt(prompts, prompt_id) ==
    IF \E i \in 1..Len(prompts) : prompts[i].id = prompt_id
    THEN LET first == CHOOSE i \in 1..Len(prompts) :
                          /\ prompts[i].id = prompt_id
                          /\ \A j \in 1..(i - 1) : prompts[j].id # prompt_id
         IN  Some(prompts[first])
    ELSE None

PromptIds == {"raw", "fix_grammar", "shout"}

----------------------------------------------------------------------------
(* The application right after run() has set it up on a fresh machine: no   *)
(* config.json yet, the bundled prompts.yaml readable, the default hotkey   *)
(* registered, the window showing.                                          *)

MainIdle == [pc |-> "idle"]
NoUpdate == [returned |-> "none"]
ApIdle == [pc |-> "idle"]
NoEvent == [kind |-> "none"]

AppStart ==
    /\ prompts_yaml = [kind |-> "parsed",
                       prompts |-> << Prompt("fix_grammar", "Fix Grammar", "Fix grammar"),
                                      Prompt("raw", "Raw", "") >>]
    /\ config_file = NoFile
    /\ saved = None
    /\ main = MainIdle
    /\ registered = {AppConfig_default.global_hotkey}
    /\ hk = NoUpdate
    /\ window = "visible"
    /\ running = TRUE
    /\ event = NoEvent
    /\ ap = ApIdle

Init ==
    /\ config \in LLMConfigs
    /\ pc = "idle"
    /\ request = NoRequest
    /\ model_id = ""
    /\ adapter = "none"
    /\ wire = NoWire
    /\ spawns = 0
    /\ requests = 0
    /\ reply = NoReply
    /\ result = NoResult
    /\ AppStart

\* LLMClient::new(config)
NewClient(cfg) ==
    /\ pc = "idle"
    /\ config' = cfg
    /\ UNCHANGED <<pc, request, model_id, adapter, wire, spawns, requests, reply, result>>

\* process_text up to the point where the chosen backend has been invoked,
\* or to its return when routing or the adapter's set-up fails
process_text(prompt, text, id) ==
    LET req == [system_prompt |-> prompt, user_content |-> text]
        route == Route(config, id)
    IN  /\ pc = "idle"
        /\ request' = req
        /\ model_id' = id
        /\ adapter' = route.adapter
        /\ reply' = NoReply
        /\ UNCHANGED config
        /\ CASE route.adapter = "none" ->
                  /\ result' = Err(route.err)
                  /\ pc' = "done"
                  /\ wire' = NoWire
                  /\ spawns' = 0
                  /\ requests' = 0
             [] route.adapter = "claude_cli" ->
                  /\ result' = NoResult
                  /\ pc' = "claude_cli"
                  /\ wire' = call_claude_cli(config, req)
                  /\ spawns' = 1
                  /\ requests' = 0
             [] OTHER ->
                  \E runtime_ok \in BOOLEAN :
                      IF runtime_ok
                      THEN /\ result' = NoResult
                           /\ pc' = "http"
                           /\ wire' = http_request(route.adapter, req, route.api_key, id)
                           /\ spawns' = 0
                           /\ requests' = 1
                      ELSE /\ result' = Err("Failed to create runtime: Too many open files (os error 24)")
                           /\ pc' = "done"
                           /\ wire' = NoWire
                           /\ spawns' = 0
                           /\ requests' = 0

\* Command::output() fails: the executable could not be started
ClaudeCliLaunchFailed(e) ==
    /\ pc = "claude_cli"
    /\ reply' = [kind |-> "launch_failed", error |-> e]
    /\ result' = claude_cli_launch_error(e)
    /\ pc' = "done"
    /\ UNCHANGED <<config, request, model_id, adapter, wire, spawns, requests>>

\* the claude process ran and exited
ClaudeCliExited(output) ==
    /\ pc = "claude_cli"
    /\ reply' = [kind |-> "exited", output |-> output]
    /\ result' = claude_cli_output(output)
    /\ pc' = "done"
    /\ UNCHANGED <<config, request, model_id, adapter, wire, spawns, requests>>

\* variant: a failed send is retried once before giving up
HttpSendFailed_retry(e) ==
    /\ pc = "http"
    /\ IF requests < 2
       THEN /\ requests' = requests + 1
            /\ UNCHANGED <<pc, reply, result>>
       ELSE /\ reply' = [kind |-> "send_failed", error |-> e]
            /\ result' = Err("HTTP request failed: " \o e)
            /\ pc' = "done"
            /\ UNCHANGED requests
    /\ UNCHANGED <<config, request, model_id, adapter, wire, spawns>>

\* send() fails: no response arrives
HttpSendFailed(e) ==
    /\ pc = "http"
    /\ reply' = [kind |-> "send_failed", error |-> e]
    /\ result' = Err("HTTP request failed: " \o e)
    /\ pc' = "done"
    /\ UNCHANGED <<config, request, model_id, adapter, wire, spawns, requests>>

\* a response arrives and the adapter turns it into the call's result
HttpResponded(resp) ==
    /\ pc = "http"
    /\ reply' = [kind |-> "response", response |-> resp]
    /\ result' = http_response(adapter, resp, model_id)
    /\ pc' = "done"
    /\ UNCHANGED <<config, request, model_id, adapter, wire, spawns, requests>>

\* the caller takes the result; the request is dropped
Return ==
    /\ pc = "done"
    /\ pc' = "idle"
    /\ request' = NoRequest
    /\ model_id' = ""
    /\ adapter' = "none"
    /\ wire' = NoWire
    /\ spawns' = 0
    /\ requests' = 0
    /\ reply' = NoReply
    /\ result' = NoResult
    /\ UNCHANGED config

\* the client on its own: the application around it stands still
Next ==
    \/ \E cfg \in LLMConfigs : NewClient(cfg) /\ UNCHANGED app_vars
    \/ \E prompt \in Prompts, text \in Texts, id \in ModelIds :
           process_text(prompt, text, id) /\ UNCHANGED app_vars
    \/ \E e \in IoErrors : ClaudeCliLaunchFailed(e) /\ UNCHANGED app_vars
    \/ \E output \in ProcessOutputs : ClaudeCliExited(output) /\ UNCHANGED app_vars
    \/ \E e \in TransportErrors : HttpSendFailed(e) /\ UNCHANGED app_vars
    \/ \E resp \in Responses : HttpResponded(resp) /\ UNCHANGED app_vars
    \/ Return /\ UNCHANGED app_vars

Spec == Init /\ [][Next]_vars

----------------------------------------------------------------------------
(* The same machine under the scheduling the code guarantees: once a result *)
(* is there process_text returns it.  Nothing in the adapters bounds the    *)
(* wait for the backend (reqwest::Client::new() sets no timeout and         *)
(* Command::output() waits for the process), so the backend's answer is     *)
(* not forced to arrive.                                                    *)

FairSpec == Init /\ [][Next]_vars /\ WF_vars(Return /\ UNCHANGED app_vars)

----------------------------------------------------------------------------
(* The CLI path alone, with a wide range of outputs of the claude process:  *)
(* the client of the unit tests, a bare Claude model, exit status 0.        *)

OutPieces == {Fence, "\n", "x"}

RECURSIVE TextsOfPieces(_)
TextsOfPieces(n) ==
    IF n = 0 THEN {""}
    ELSE LET shorter == TextsOfPieces(n - 1)
         IN  shorter \cup {s \o piece : s \in shorter, piece \in OutPieces}

CleanupOutputs ==
    {[success |-> TRUE, stdout |-> [utf8 |-> TRUE, text |-> t], stderr |-> ""] :
        t \in TextsOfPieces(MaxPieces)}

CleanupInit ==
    /\ config = TestConfig
    /\ pc = "idle"
    /\ request = NoRequest
    /\ model_id = ""
    /\ adapter = "none"
    /\ wire = NoWire
    /\ spawns = 0
    /\ requests = 0
    /\ reply = NoReply
    /\ result = NoResult
    /\ AppStart

CleanupNext ==
    \/ \E prompt \in Prompts, text \in Texts :
           process_text(prompt, text, "claude-3-5-sonnet") /\ UNCHANGED app_vars
    \/ \E output \in CleanupOutputs : ClaudeCliExited(output) /\ UNCHANGED app_vars
    \/ Return /\ UNCHANGED app_vars

CleanupSpec == CleanupInit /\ [][CleanupNext]_vars

----------------------------------------------------------------------------
(* The apply_prompt command (lib.rs).  It is an async command: it runs off  *)
(* the main thread and hands process_text to a blocking task, so the        *)
(* commands of the main thread can run while it is under way.               *)

JoinErrors == {"task 7 panicked"}

\* the message apply_prompt returns when process_text failed; "(i)" and "->"
\* stand for the two non-ASCII symbols of the source text
apply_prompt_error_message(e, name, text, system_prompt) ==
    "[Error: " \o e \o "]\n\n"
    \o "Applied: " \o name \o "\n\n"
    \o "Original text:\n" \o text \o "\n\n"
    \o "Prompt:\n" \o system_prompt \o "\n\n"
    \o "(i) To fix this:\n"
    \o "- If using Claude: Make sure Claude CLI is installed (brew install claude)\n"
    \o "- If using OpenAI: Add your API key in Settings (File -> Settings)\n"
    \o "- Check Settings to configure LLM authentication"

\* let prompt_text = if prompt.id == "raw" { "" } else { prompt.system_prompt.clone() }
prompt_text_of(prompt) ==
    IF prompt.id = "raw" THEN "" ELSE prompt.system_prompt

\* variant: a failed process_text is passed on as Err
apply_prompt_result_err_passed(r, prompt, text) ==
    IF r.tag = "Ok" THEN Ok(r.val) ELSE Err(r.val)

\* match result { Ok(result) => Ok(result), Err(e) => Ok(format!(...)) }
apply_prompt_result(r, prompt, text) ==
    IF r.tag = "Ok"
    THEN Ok(r.val)
    ELSE Ok(apply_prompt_error_message(r.val, prompt.name, text, prompt.system_prompt))

\* the configurations a load may return at this moment: the one saved last
\* (the default when none was) or the one a save under way is writing
LoadMayReturn ==
    {IF saved.some THEN saved.val ELSE AppConfig_default}
        \cup (IF main.pc = "writing" THEN {main.cfg} ELSE {})

\* apply_prompt up to spawn_blocking: catalog lookup, AppConfig::load,
\* LLMClient::new
apply_prompt(prompt_id, text) ==
    LET found == find_prompt(get_all_prompts(prompts_yaml), prompt_id)
        loaded == load(config_file)
    IN  /\ running
        /\ ap.pc = "idle"
        /\ pc = "idle"
        /\ IF found.some
           THEN /\ ap' = [pc |-> "spawned", prompt_id |-> prompt_id, text |-> text,
                          prompt |-> found.val, config |-> loaded,
                          expected |-> LoadMayReturn,
                          prompt_text |-> prompt_text_of(found.val),
                          model_id |-> loaded.selected_model]
                /\ config' = loaded.llm
           ELSE /\ ap' = [pc |-> "returned", prompt_id |-> prompt_id, text |-> text,
                          invoked |-> 0, result |-> Err("Prompt not found")]
                /\ UNCHANGED config
        /\ UNCHANGED <<pc, request, model_id, adapter, wire, spawns, requests, reply, result>>
        /\ UNCHANGED <<prompts_yaml, config_file, saved, main, registered, hk, window, running, event>>

\* the blocking task runs client.process_text(&prompt_text, &text_clone, &model_id)
blocking_task ==
    /\ running
    /\ ap.pc = "spawned"
    /\ process_text(ap.prompt_text, ap.text, ap.model_id)
    /\ ap' = [ap EXCEPT !.pc = "running"]
    /\ UNCHANGED <<prompts_yaml, config_file, saved, main, registered, hk, window, running, event>>

\* the blocking task panics (reqwest::Client::new() does when no TLS backend
\* can be initialised): .await yields a JoinError
blocking_task_panicked(e) ==
    /\ running
    /\ ap.pc = "spawned"
    /\ ap' = [pc |-> "returned", prompt_id |-> ap.prompt_id, text |-> ap.text,
              invoked |-> 0, result |-> Err("Task join error: " \o e)]
    /\ UNCHANGED llm_vars
    /\ UNCHANGED <<prompts_yaml, config_file, saved, main, registered, hk, window, running, event>>

\* process_text has returned: apply_prompt turns its result into its own
apply_prompt_joined ==
    /\ running
    /\ ap.pc = "running"
    /\ Return
    /\ ap' = [pc |-> "returned", prompt_id |-> ap.prompt_id, text |-> ap.text,
              invoked |-> spawns + requests,
              failed |-> result.tag = "Err",
              error |-> IF result.tag = "Err" THEN result.val ELSE "",
              prompt |-> ap.prompt,
              result |-> apply_prompt_result(result, ap.prompt, ap.text)]
    /\ UNCHANGED <<prompts_yaml, config_file, saved, main, registered, hk, window, running, event>>

\* the frontend takes the command's result
apply_prompt_return ==
    /\ running
    /\ ap.pc = "returned"
    /\ ap' = ApIdle
    /\ UNCHANGED llm_vars
    /\ UNCHANGED <<prompts_yaml, config_file, saved, main, registered, hk, window, running, event>>

----------------------------------------------------------------------------
(* The commands and events of the main thread (config.rs, hotkey.rs,        *)
(* lib.rs, menu.rs).  Synchronous commands, window, tray, menu and shortcut *)
(* events all run on the main thread, one at a time; the only step another  *)
(* thread can observe half-done is fs::write, which truncates config.json   *)
(* before it writes the new contents.                                       *)

\* save_config: config.save(&app) as far as fs::write opening the file
save_config(cfg) ==
    /\ running
    /\ main.pc = "idle"
    /\ \E opened \in BOOLEAN :
          IF opened
          THEN /\ config_file' = FileWith("")
               /\ main' = [pc |-> "writing", cmd |-> "save_config", cfg |-> cfg]
          ELSE UNCHANGED <<config_file, main>>
    /\ hk' = NoUpdate
    /\ UNCHANGED llm_vars
    /\ UNCHANGED <<prompts_yaml, saved, registered, window, running, event, ap>>

\* what update_global_shortcut has done when it returns or reaches fs::write;
\* env names the first call the system refuses, if any
update_outcome(new_hotkey, env) ==
    IF env = "unregister_all"
    THEN [registered |-> registered, write |-> FALSE,
          result |-> Err("Failed to unregister shortcuts: " \o "system error")]
    ELSE IF ~parses_as_shortcut(new_hotkey)
    THEN [registered |-> {}, write |-> FALSE,
          result |-> Err("Failed to register new shortcut: " \o "Couldn't recognize \"" \o new_hotkey \o "\" as a valid key for hotkey")]
    ELSE IF env = "on_shortcut"
    THEN [registered |-> {}, write |-> FALSE,
          result |-> Err("Failed to register new shortcut: " \o "Failed to register hotkey")]
    ELSE IF env = "register"
    THEN [registered |-> {new_hotkey}, write |-> FALSE,
          result |-> Err("Failed to register new shortcut: " \o "Failed to register hotkey '" \o new_hotkey \o "': HotKey already registered. This hotkey may be in use by another application or your system.")]
    ELSE IF env = "fs::write"
    THEN [registered |-> {new_hotkey}, write |-> FALSE,
          result |-> Err("Failed to write config: " \o "Permission denied (os error 13)")]
    ELSE [registered |-> {new_hotkey}, write |-> TRUE, result |-> Ok("")]

SystemRefusals == {"unregister_all", "on_shortcut", "register", "fs::write", "nothing"}

\* update_global_shortcut as far as its return with an error, or as far as
\* fs::write opening the file
update_global_shortcut(new_hotkey) ==
    /\ running
    /\ main.pc = "idle"
    /\ \E env \in SystemRefusals :
          LET out == update_outcome(new_hotkey, env)
              call == [new_hotkey |-> new_hotkey,
                       registered_before |-> registered,
                       file_before |-> config_file]
          IN  /\ registered' = out.registered
              /\ IF out.write
                 THEN /\ config_file' = FileWith("")
                      /\ main' = [pc |-> "writing", cmd |-> "update_global_shortcut",
                                  cfg |-> [load(config_file) EXCEPT !.global_hotkey = new_hotkey],
                                  call |-> call]
                      /\ hk' = NoUpdate
                 ELSE /\ hk' = [returned |-> "Err", error |-> out.result.val, call |-> call]
                      /\ UNCHANGED <<config_file, main>>
    /\ UNCHANGED llm_vars
    /\ UNCHANGED <<prompts_yaml, saved, window, running, event, ap>>

\* fs::write puts the new contents into the file; the command returns Ok(())
fs_write_done ==
    /\ running
    /\ main.pc = "writing"
    /\ config_file' = FileWith(config_json(main.cfg))
    /\ saved' = Some(main.cfg)
    /\ hk' = IF main.cmd = "update_global_shortcut"
             THEN [returned |-> "Ok", call |-> main.call]
             ELSE NoUpdate
    /\ main' = MainIdle
    /\ UNCHANGED llm_vars
    /\ UNCHANGED <<prompts_yaml, registered, window, running, event, ap>>

\* variant: the close request is let through
CloseRequested_closes ==
    /\ running
    /\ main.pc = "idle"
    /\ window # "destroyed"
    /\ window' = "destroyed"
    /\ UNCHANGED llm_vars
    /\ event' = [kind |-> "close", before |-> window]
    /\ UNCHANGED <<prompts_yaml, config_file, saved, main, registered, hk, running, ap>>

\* WindowEvent::CloseRequested: api.prevent_close(), win.hide()
CloseRequested ==
    /\ running
    /\ main.pc = "idle"
    /\ window # "destroyed"
    /\ window' = "hidden"
    /\ UNCHANGED llm_vars
    /\ event' = [kind |-> "close", before |-> window]
    /\ UNCHANGED <<prompts_yaml, config_file, saved, main, registered, hk, running, ap>>

\* the callback given to on_shortcut: a registered hotkey was pressed
on_shortcut(hotkey) ==
    /\ running
    /\ main.pc = "idle"
    /\ hotkey \in registered
    /\ window' = IF window = "destroyed" THEN window ELSE "visible"
    /\ UNCHANGED llm_vars
    /\ event' = [kind |-> "hotkey", before |-> window]
    /\ UNCHANGED <<prompts_yaml, config_file, saved, main, registered, hk, running, ap>>

\* on_tray_icon_event: a left click on the tray icon
on_tray_icon_event ==
    /\ running
    /\ main.pc = "idle"
    /\ window' = CASE window = "visible" -> "hidden"
                   [] window = "hidden" -> "visible"
                   [] OTHER -> window
    /\ UNCHANGED llm_vars
    /\ event' = [kind |-> "tray:click", before |-> window]
    /\ UNCHANGED <<prompts_yaml, config_file, saved, main, registered, hk, running, ap>>

TrayMenuIds == {"show", "hide", "quit"}

\* the tray menu's on_menu_event
on_menu_event(id) ==
    /\ running
    /\ main.pc = "idle"
    /\ window' = CASE id = "show" /\ window # "destroyed" -> "visible"
                   [] id = "hide" /\ window # "destroyed" -> "hidden"
                   [] OTHER -> window
    /\ running' = (id # "quit")
    /\ UNCHANGED llm_vars
    /\ event' = [kind |-> "tray:" \o id, before |-> window]
    /\ UNCHANGED <<prompts_yaml, config_file, saved, main, registered, hk, ap>>

MenuIds == {"settings", "exit", "llm_gpt4", "llm_claude_sonnet", "llm_atlas_gpt51"}

\* menu::handle_menu_event: "exit" ends the process, the other items only
\* emit an event to the frontend
handle_menu_event(id) ==
    /\ running
    /\ main.pc = "idle"
    /\ running' = (id # "exit")
    /\ UNCHANGED llm_vars
    /\ event' = [kind |-> "menu:" \o id, before |-> window]
    /\ UNCHANGED <<prompts_yaml, config_file, saved, main, registered, hk, window, ap>>

----------------------------------------------------------------------------
(* apply_prompt at work: any prompts.yaml, a config.json that is absent or  *)
(* holds a saved configuration, and the settings dialog saving while        *)
(* prompts are applied.                                                     *)

\* config.json and the last save behind it, as a session finds them
ConfigFiles ==
    {<<NoFile, None>>} \cup {<<FileWith(config_json(c)), Some(c)>> : c \in SavedConfigs}

ApplyInit ==
    /\ config = LLMConfig_default
    /\ pc = "idle"
    /\ request = NoRequest
    /\ model_id = ""
    /\ adapter = "none"
    /\ wire = NoWire
    /\ spawns = 0
    /\ requests = 0
    /\ reply = NoReply
    /\ result = NoResult
    /\ prompts_yaml \in PromptsYamlStates
    /\ \E f \in ConfigFiles : config_file = f[1] /\ saved = f[2]
    /\ main = MainIdle
    /\ registered = {load(config_file).global_hotkey}
    /\ hk = NoUpdate
    /\ window = "visible"
    /\ running = TRUE
    /\ event = NoEvent
    /\ ap = ApIdle

ApplyNext ==
    \/ \E prompt_id \in PromptIds, text \in Texts : apply_prompt(prompt_id, text)
    \/ blocking_task
    \/ \E e \in JoinErrors : blocking_task_panicked(e)
    \/ \E e \in IoErrors : ClaudeCliLaunchFailed(e) /\ UNCHANGED app_vars
    \/ \E output \in ProcessOutputs : ClaudeCliExited(output) /\ UNCHANGED app_vars
    \/ \E e \in TransportErrors : HttpSendFailed(e) /\ UNCHANGED app_vars
    \/ \E resp \in Responses : HttpResponded(resp) /\ UNCHANGED app_vars
    \/ apply_prompt_joined
    \/ apply_prompt_return
    \/ \E cfg \in SavedConfigs : save_config(cfg)
    \/ fs_write_done

ApplySpec == ApplyInit /\ [][ApplyNext]_vars

----------------------------------------------------------------------------
(* The shell of the application: shortcut, window, tray and menus.  At      *)
(* start-up run() registers the configured hotkey; a failure is only        *)
(* logged, so a session may start with no shortcut registered.              *)

ShellInit ==
    /\ config = LLMConfig_default
    /\ pc = "idle"
    /\ request = NoRequest
    /\ model_id = ""
    /\ adapter = "none"
    /\ wire = NoWire
    /\ spawns = 0
    /\ requests = 0
    /\ reply = NoReply
    /\ result = NoResult
    /\ prompts_yaml = [kind |-> "missing"]
    /\ \E f \in ConfigFiles : config_file = f[1] /\ saved = f[2]
    /\ main = MainIdle
    /\ registered \in {{load(config_file).global_hotkey}, {}}
    /\ hk = NoUpdate
    /\ window = "visible"
    /\ running = TRUE
    /\ event = NoEvent
    /\ ap = ApIdle

ShellNext ==
    \/ \E new_hotkey \in Hotkeys : update_global_shortcut(new_hotkey)
    \/ \E cfg \in SavedConfigs : save_config(cfg)
    \/ fs_write_done
    \/ CloseRequested
    \/ \E hotkey \in Hotkeys : on_shortcut(hotkey)
    \/ on_tray_icon_event
    \/ \E id \in TrayMenuIds : on_menu_event(id)
    \/ \E id \in MenuIds : handle_menu_event(id)

ShellSpec == ShellInit /\ [][ShellNext]_vars

----------------------------------------------------------------------------
(* Properties of process_text *)

InCall == pc # "idle"
Returned == pc = "done"
NoBackendInvoked == spawns = 0 /\ requests = 0 /\ wire = NoWire

IsNamespaced(id) == contains(id, "/")
IsBareClaude(id) == starts_with(id, "claude") /\ ~IsNamespaced(id)
IsBareGpt(id) == starts_with(id, "gpt") /\ ~IsNamespaced(id)
HasLocalProviderPrefix(id) == starts_with(id, "claude") \/ starts_with(id, "anthropic/claude")

\* C1: for every model identifier containing "/", with no AtlasCloud key and
\* use_claude_cli false, process_text returns the missing-gateway-credential
\* error and invokes no adapter, whatever the other keys are.
C1_NamespacedNeedsGatewayKey ==
    (/\ InCall
     /\ IsNamespaced(model_id)
     /\ ~config.atlascloud_api_key.some
     /\ ~config.use_claude_cli)
    => (/\ Returned
        /\ result.tag = "Err"
        /\ contains(result.val, "AtlasCloud API key")
        /\ adapter = "none"
        /\ NoBackendInvoked)

\* C2: for an identifier with the "claude" or "anthropic/claude" prefix, with
\* use_claude_cli true and force_atlascloud_for_claude false, the call is
\* dispatched to the Claude CLI whatever keys are configured.
C2_LocalCliSelected ==
    (/\ InCall
     /\ HasLocalProviderPrefix(model_id)
     /\ config.use_claude_cli
     /\ ~config.force_atlascloud_for_claude)
    => (/\ adapter = "claude_cli"
        /\ wire.kind = "process"
        /\ wire.program = "claude"
        /\ spawns = 1
        /\ requests = 0)

C2_Witness ==
    /\ Returned
    /\ adapter = "claude_cli"
    /\ model_id = "anthropic/claude-3-haiku"
    /\ config.use_claude_cli
    /\ ~config.force_atlascloud_for_claude
    /\ config.atlascloud_api_key.some
    /\ config.anthropic_api_key.some

\* C3 as stated: for every identifier with the local provider's prefix, bare
\* or namespaced, use_claude_cli true, force_atlascloud_for_claude true and an
\* AtlasCloud key present select the AtlasCloud adapter.
C3_ForcedGatewayAnyClaude ==
    (/\ InCall
     /\ HasLocalProviderPrefix(model_id)
     /\ config.use_claude_cli
     /\ config.force_atlascloud_for_claude
     /\ config.atlascloud_api_key.some)
    => (adapter = "atlascloud" /\ spawns = 0)

\* C3 amended: for an identifier starting with "anthropic/claude", with
\* use_claude_cli true, force_atlascloud_for_claude true and an AtlasCloud key
\* present, the AtlasCloud adapter is selected and the CLI is not started.
C3_ForcedGateway ==
    (/\ InCall
     /\ starts_with(model_id, "anthropic/claude")
     /\ config.use_claude_cli
     /\ config.force_atlascloud_for_claude
     /\ config.atlascloud_api_key.some)
    => (/\ adapter = "atlascloud"
        /\ spawns = 0
        /\ (pc = "http" => wire.url = "https://api.atlascloud.ai/v1/chat/completions"))

C3_Witness ==
    /\ pc = "http"
    /\ adapter = "atlascloud"
    /\ requests = 1
    /\ model_id = "anthropic/claude-3-haiku"
    /\ config.use_claude_cli
    /\ config.force_atlascloud_for_claude

\* C4: an identifier that starts with none of "anthropic/claude", "claude",
\* "gpt" and contains no "/" yields the unsupported-model error naming the
\* identifier, under every configuration, and no backend is invoked.
C4_UnsupportedModel ==
    (/\ InCall
     /\ ~starts_with(model_id, "anthropic/claude")
     /\ ~starts_with(model_id, "claude")
     /\ ~starts_with(model_id, "gpt")
     /\ ~IsNamespaced(model_id))
    => (/\ Returned
        /\ result = Err("Unsupported model: " \o model_id)
        /\ adapter = "none"
        /\ NoBackendInvoked)

C4_Witness ==
    /\ Returned
    /\ model_id = "unknown-model-xyz"
    /\ result.tag = "Err"
    /\ config.openai_api_key.some
    /\ config.anthropic_api_key.some
    /\ config.atlascloud_api_key.some
    /\ config.use_claude_cli

\* the call failed in routing for a reason other than an unsupported model
CredentialFailure ==
    /\ Returned
    /\ adapter = "none"
    /\ result.tag = "Err"
    /\ ~starts_with(result.val, "Unsupported model: ")

\* C5: when process_text fails for a missing credential the error names a key
\* that is indeed absent and nothing was launched or sent; in particular
\* "openai/gpt-5.1" without an AtlasCloud key fails that way.
C5_MissingCredentialNamed ==
    /\ CredentialFailure =>
          /\ NoBackendInvoked
          /\ \/ contains(result.val, "AtlasCloud API key") /\ ~config.atlascloud_api_key.some
             \/ contains(result.val, "Anthropic API key") /\ ~config.anthropic_api_key.some
             \/ contains(result.val, "OpenAI API key") /\ ~config.openai_api_key.some
    /\ (InCall /\ model_id = "openai/gpt-5.1" /\ ~config.atlascloud_api_key.some) =>
          /\ CredentialFailure
          /\ contains(result.val, "AtlasCloud API key")
          /\ requests = 0

C5_Witness ==
    /\ CredentialFailure
    /\ model_id = "openai/gpt-5.1"
    /\ ~config.atlascloud_api_key.some
    /\ config.openai_api_key.some
    /\ requests = 0

\* C6: an "anthropic/claude" identifier with force_atlascloud_for_claude true
\* and no AtlasCloud key fails with the missing-gateway-key error even when
\* use_claude_cli is true; the CLI is never started.
C6_ForcedGatewayWithoutKey ==
    (/\ InCall
     /\ starts_with(model_id, "anthropic/claude")
     /\ config.force_atlascloud_for_claude
     /\ ~config.atlascloud_api_key.some)
    => (/\ Returned
        /\ result.tag = "Err"
        /\ contains(result.val, "AtlasCloud API key")
        /\ adapter = "none"
        /\ NoBackendInvoked)

C6_Witness ==
    /\ Returned
    /\ starts_with(model_id, "anthropic/claude")
    /\ config.force_atlascloud_for_claude
    /\ ~config.atlascloud_api_key.some
    /\ config.use_claude_cli
    /\ result.tag = "Err"

\* C7: a bare identifier starting with "claude" goes to the CLI when
\* use_claude_cli is true, else to the Anthropic API when its key is present,
\* else fails with an error mentioning the Anthropic API key.
C7_BareClaudeRouting ==
    (InCall /\ IsBareClaude(model_id)) =>
        IF config.use_claude_cli
        THEN adapter = "claude_cli" /\ wire.kind = "process" /\ requests = 0
        ELSE IF config.anthropic_api_key.some
        THEN /\ adapter = "anthropic"
             /\ spawns = 0
             /\ (pc = "http" => wire.url = "https://api.anthropic.com/v1/messages")
        ELSE /\ Returned
             /\ result.tag = "Err"
             /\ contains(result.val, "Anthropic API key")
             /\ adapter = "none"
             /\ NoBackendInvoked

C7_Witness ==
    /\ pc = "http"
    /\ model_id = "claude-3-5-sonnet"
    /\ adapter = "anthropic"
    /\ ~config.use_claude_cli
    /\ requests = 1

\* C8: a bare identifier starting with "gpt" goes to the OpenAI API when the
\* OpenAI key is present and otherwise fails with the missing-OpenAI-key
\* error, whatever use_claude_cli and force_atlascloud_for_claude are.
C8_BareGptRouting ==
    (InCall /\ IsBareGpt(model_id)) =>
        IF config.openai_api_key.some
        THEN /\ adapter = "openai"
             /\ spawns = 0
             /\ (pc = "http" => wire.url = "https://api.openai.com/v1/chat/completions")
        ELSE /\ Returned
             /\ result.tag = "Err"
             /\ contains(result.val, "OpenAI API key")
             /\ adapter = "none"
             /\ NoBackendInvoked

C8_Witness ==
    /\ pc = "http"
    /\ model_id = "gpt-4"
    /\ adapter = "openai"
    /\ config.use_claude_cli
    /\ config.force_atlascloud_for_claude
    /\ config.atlascloud_api_key.some
    /\ requests = 1

\* the backend's answer was a failure
BackendFailed ==
    \/ reply.kind = "launch_failed"
    \/ reply.kind = "send_failed"
    \/ reply.kind = "exited" /\ ~reply.output.success
    \/ reply.kind = "response" /\ ~is_success(reply.response.status)

\* a backend invocation is outstanding
InFlight == pc \in {"claude_cli", "http"}

\* the step ends the call and leaves the invocation as it was
ReturnsWithoutSecondAttempt ==
    /\ pc' = "done"
    /\ adapter' = adapter
    /\ wire' = wire
    /\ spawns' = spawns
    /\ requests' = requests

\* C9: one process_text call makes at most one backend invocation; once the
\* backend has been invoked the only step left is the return, with the same
\* adapter and no further launch or request; a backend failure is returned
\* to the caller as an error.
C9_SingleAttempt ==
    /\ [](spawns + requests <= 1)
    /\ [](Returned /\ BackendFailed => result.tag = "Err")
    /\ [][InFlight => ReturnsWithoutSecondAttempt]_vars

C9_Witness ==
    /\ Returned
    /\ reply.kind = "send_failed"
    /\ requests = 1
    /\ spawns = 0
    /\ result.tag = "Err"

\* C10: in each REST adapter, for every model identifier, a non-2xx response
\* yields an error whose message carries the HTTP status code and the raw
\* response body.
C10_NonSuccessStatusReported ==
    (/\ Returned
     /\ reply.kind = "response"
     /\ ~is_success(reply.response.status))
    => (/\ result.tag = "Err"
        /\ contains(result.val, ToString(reply.response.status))
        /\ (reply.response.text.some => contains(result.val, reply.response.text.val)))

----------------------------------------------------------------------------
(* Properties of the adapters *)

\* the call got a 2xx response whose body could be read
GotSuccessResponse ==
    /\ Returned
    /\ reply.kind = "response"
    /\ is_success(reply.response.status)
    /\ reply.response.text.some

ResponseBody == reply.response.text.val

\* C11: in each REST adapter a 2xx response whose body yields no text (no
\* success shape matches, or the body is not JSON) gives an error that
\* carries the response body, verbatim or re-serialised.
C11_UnparsableCarriesBody ==
    (GotSuccessResponse /\ result.tag = "Err") =>
        \/ contains(result.val, ResponseBody)
        \/ /\ response_json(reply.response).t # "invalid"
           /\ contains(result.val, to_string_pretty(response_json(reply.response)))

\* C12: on a 2xx gateway response the text at choices[0].message.content is
\* returned unmodified; the output[0].content[0].text path is used only when
\* the choices path yields no string, and the top-level text/content fields
\* only when neither does.
C12_GatewayExtractionOrder ==
    (GotSuccessResponse /\ adapter = "atlascloud") =>
        /\ ResponseBody = Bodies[1].raw => result = Ok("done")
        /\ ResponseBody = Bodies[8].raw => result = Ok("first")
        /\ ResponseBody = Bodies[9].raw => result = Ok("second")
        /\ ResponseBody = Bodies[10].raw => result = Ok("third")
        /\ response_json(reply.response).t # "invalid" =>
              LET j == response_json(reply.response)
                  c == atlascloud_choices_text(j)
                  o == atlascloud_output_text(j)
                  d == atlascloud_direct_text(j)
              IN  /\ c.some => result = Ok(c.val)
                  /\ (~c.some /\ o.some) => result = Ok(o.val)
                  /\ (~c.some /\ ~o.some /\ d.some) => result = Ok(d.val)

C12_Witness ==
    /\ GotSuccessResponse
    /\ adapter = "atlascloud"
    /\ ResponseBody = Bodies[8].raw
    /\ result = Ok("first")

\* C13: "claude-3-5-sonnet" with use_claude_cli true always reaches the CLI,
\* and when the claude executable cannot be launched the result is the
\* launch-failure error with the install hint, never a credential error,
\* whatever keys are configured.
C13_LaunchFailureHint ==
    (InCall /\ model_id = "claude-3-5-sonnet" /\ config.use_claude_cli) =>
        /\ adapter = "claude_cli"
        /\ ~CredentialFailure
        /\ (Returned /\ reply.kind = "launch_failed") =>
              /\ result.tag = "Err"
              /\ starts_with(result.val, "Failed to execute Claude CLI")
              /\ contains(result.val, "Make sure Claude CLI is installed (brew install claude)")
              /\ ~contains(result.val, "API key")

C13_Witness ==
    /\ Returned
    /\ model_id = "claude-3-5-sonnet"
    /\ config.use_claude_cli
    /\ ~config.anthropic_api_key.some
    /\ ~config.atlascloud_api_key.some
    /\ reply.kind = "launch_failed"
    /\ result.tag = "Err"

\* C14: with an empty system_prompt the CLI is invoked with -p and the text
\* only, and the gateway request holds the single user message and no
\* system-role message.
C14_EmptyPromptOmitted ==
    (InCall /\ request.system_prompt = "") =>
        /\ wire.kind = "process" =>
              /\ wire.args = <<"-p", request.user_content>>
              /\ \A i \in 1..Len(wire.args) : wire.args[i] # "--system-prompt"
        /\ (wire.kind = "http" /\ adapter = "atlascloud") =>
              /\ Len(wire.body.messages) = 1
              /\ wire.body.messages[1].role = "user"
              /\ \A i \in 1..Len(wire.body.messages) : wire.body.messages[i].role # "system"

C14_Witness ==
    /\ request.system_prompt = ""
    /\ wire.kind = "process"
    /\ Len(wire.args) = 2
    /\ pc = "claude_cli"

\* the user-role messages of an HTTP request body
UserMessages(body) ==
    {i \in 1..Len(body.messages) : body.messages[i].role = "user"}

\* C16: in all four adapters the user_content given to process_text reaches
\* the backend unchanged: as the argument after -p, or as the content of the
\* one user-role message, for every system_prompt and model identifier.
C16_UserContentUnchanged ==
    /\ wire.kind = "process" =>
          /\ wire.args[1] = "-p"
          /\ wire.args[2] = request.user_content
    /\ wire.kind = "http" =>
          /\ Cardinality(UserMessages(wire.body)) = 1
          /\ \A i \in UserMessages(wire.body) :
                wire.body.messages[i].content = request.user_content

C16_Witness ==
    /\ wire.kind = "http"
    /\ adapter = "anthropic"
    /\ request.system_prompt # ""
    /\ request.user_content = " hi\n"
    /\ wire.body.messages[1].content = " hi\n"

\* C18: a backend answer that parses as success with an empty text makes the
\* call return Ok(""): exit status 0 with empty or whitespace-only output, or
\* a 2xx body whose extracted text is the empty string.
C18_EmptySuccessIsOk ==
    /\ (Returned /\ reply.kind = "exited" /\ reply.output.success
          /\ reply.output.stdout.utf8 /\ trim(reply.output.stdout.text) = "")
       => result = Ok("")
    /\ (GotSuccessResponse /\ adapter \in {"atlascloud", "openai"}
          /\ ResponseBody = "{\"choices\":[{\"message\":{\"content\":\"\"}}]}")
       => result = Ok("")
    /\ (GotSuccessResponse /\ adapter = "anthropic"
          /\ ResponseBody = "{\"content\":[{\"text\":\"\"}]}")
       => result = Ok("")

C18_Witness ==
    /\ Returned
    /\ reply.kind = "exited"
    /\ reply.output.success
    /\ reply.output.stdout.text = "  \n"
    /\ result = Ok("")

\* C19: the "model" field of the request body sent to the gateway equals the
\* caller's model identifier, for the listed ids and every other id.
C19_GatewayModelIsCallerId ==
    (wire.kind = "http" /\ adapter = "atlascloud") =>
        /\ wire.url = "https://api.atlascloud.ai/v1/chat/completions"
        /\ wire.body.model = model_id

C19_Witness ==
    /\ wire.kind = "http"
    /\ adapter = "atlascloud"
    /\ model_id = "openai/gpt-5.1"
    /\ wire.body.model = "openai/gpt-5.1"

\* C20: an identifier containing "/" is never sent to the direct Anthropic or
\* OpenAI adapter; besides the gateway only the CLI override for the
\* "anthropic/" namespace is possible.
C20_NamespacedNeverDirect ==
    (InCall /\ IsNamespaced(model_id)) =>
        adapter \in {"none", "atlascloud", "claude_cli"}

\* C15: the cleanup of the CLI output is idempotent: cleaning an already
\* cleaned result returns it unchanged.
C15_CleanupIdempotent ==
    (Returned /\ reply.kind = "exited" /\ result.tag = "Ok") =>
        cleaned(result.val) = result.val

\* C17: a call routed to a REST adapter has exactly one HTTP request
\* outstanding and eventually returns, also when the endpoint never answers.
C17_RestCallReturns ==
    /\ [](pc = "http" => requests = 1)
    /\ (pc = "http") ~> (pc = "done")

----------------------------------------------------------------------------
(* Properties of call_claude_cli *)

CliExited == Returned /\ reply.kind = "exited"
CliSucceeded == CliExited /\ reply.output.success /\ reply.output.stdout.utf8

StripOneLeading(s, p) ==
    IF starts_with(s, p) THEN SubSeq(s, Len(p) + 1, Len(s)) ELSE s

StripOneTrailing(s, p) ==
    IF ends_with(s, p) THEN SubSeq(s, 1, Len(s) - Len(p)) ELSE s

\* C21: on process success exactly one leading and one trailing fence are
\* stripped from the trimmed output: of two or more consecutive fences at
\* either end all but one are kept.
C21_SingleFenceStripped ==
    CliSucceeded =>
        result = Ok(trim(StripOneTrailing(StripOneLeading(trim(reply.output.stdout.text), Fence), Fence)))

\* C22: when the claude process was launched and exited with a non-zero
\* status the call fails with an error that carries the process's standard
\* error text; standard output is not returned, whatever it holds.
C22_NonZeroExitIsError ==
    (CliExited /\ ~reply.output.success) =>
        /\ result.tag = "Err"
        /\ starts_with(result.val, "Claude CLI error: " \o reply.output.stderr)

C22_Witness ==
    /\ CliExited
    /\ ~reply.output.success
    /\ reply.output.stderr = "Not logged in"
    /\ reply.output.stdout.utf8
    /\ cleaned(reply.output.stdout.text) = "Hello there"
    /\ result.tag = "Err"

ReturnOnlySuffix ==
    "\n\nIMPORTANT: Return ONLY the processed text. Do not include any explanations, meta-commentary, questions, or conversational text. Just return the result directly."

\* C23: with a non-empty system_prompt the claude executable is started with
\* exactly the arguments -p, user_content, --system-prompt, system_prompt
\* followed by the fixed suffix, in that order; with an empty system_prompt
\* the arguments are exactly -p, user_content.
C23_ExactArguments ==
    (InCall /\ adapter = "claude_cli") =>
        /\ wire.kind = "process"
        /\ wire.program = "claude"
        /\ wire.args = IF request.system_prompt # ""
                       THEN <<"-p", request.user_content, "--system-prompt",
                              request.system_prompt \o ReturnOnlySuffix>>
                       ELSE <<"-p", request.user_content>>

C23_Witness ==
    /\ pc = "claude_cli"
    /\ request.system_prompt = "Fix grammar"
    /\ request.user_content = " hi\n"
    /\ Len(wire.args) = 4
    /\ wire.args[3] = "--system-prompt"

\* C24: on the CLI path the command line depends only on system_prompt and
\* user_content: the invocation made by the current call is the one every
\* client routed to the CLI makes for the same request, whatever model
\* identifier the call was given and whatever claude_cli_model is configured.
C24_InvocationFromRequestOnly ==
    (InCall /\ adapter = "claude_cli") =>
        \A cfg \in LLMConfigs :
            cfg.use_claude_cli => call_claude_cli(cfg, request) = wire

C24_Witness ==
    /\ pc = "claude_cli"
    /\ model_id = "anthropic/claude-3-haiku"
    /\ config.claude_cli_model = "claude-3-opus-20240229"
    /\ wire = call_claude_cli(TestConfig, request)
    /\ Route(TestConfig, "claude-3-5-sonnet").adapter = "claude_cli"

----------------------------------------------------------------------------
(* Properties of the routing policy *)

FlagToggled(cfg) ==
    [cfg EXCEPT !.force_atlascloud_for_claude = ~cfg.force_atlascloud_for_claude]

\* C25: force_atlascloud_for_claude matters only for identifiers starting with
\* "anthropic/claude": for every other identifier the adapter selected by
\* the current call, or its routing error, is the one selected under the
\* configuration that differs only in that flag.
C25_ForceFlagScope ==
    (InCall /\ ~starts_with(model_id, "anthropic/claude")) =>
        /\ adapter = Route(FlagToggled(config), model_id).adapter
        /\ adapter = "none" => result = Err(Route(FlagToggled(config), model_id).err)

C25_Witness ==
    /\ InCall
    /\ IsBareClaude(model_id)
    /\ config.force_atlascloud_for_claude
    /\ config.atlascloud_api_key.some
    /\ config.use_claude_cli
    /\ adapter = "claude_cli"
    /\ Route(FlagToggled(config), "anthropic/claude-3-haiku") # Route(config, "anthropic/claude-3-haiku")

----------------------------------------------------------------------------
(* Properties of apply_prompt *)

ApReturned == ap.pc = "returned"
ApJoined == ApReturned /\ "failed" \in DOMAIN ap
PromptNotFound == ApReturned /\ ap.result = Err("Prompt not found")

\* C26: a failure of process_text never makes apply_prompt return Err: it
\* returns Ok with a message holding the error text, the input text and the
\* prompt's instruction.  Err is returned only when the prompt id is not in
\* the catalog or the blocking task cannot be joined, and when the prompt is
\* not found no backend has been invoked.
C26_BackendFailureIsOk ==
    /\ (ApJoined /\ ap.failed) =>
          /\ ap.result.tag = "Ok"
          /\ contains(ap.result.val, ap.error)
          /\ contains(ap.result.val, ap.text)
          /\ contains(ap.result.val, ap.prompt.system_prompt)
    /\ (ApReturned /\ ap.result.tag = "Err") =>
          \/ /\ ap.result.val = "Prompt not found"
             /\ \A i \in 1..Len(get_all_prompts(prompts_yaml)) :
                   get_all_prompts(prompts_yaml)[i].id # ap.prompt_id
          \/ starts_with(ap.result.val, "Task join error: ")
    /\ PromptNotFound =>
          /\ ap.invoked = 0
          /\ pc = "idle"
          /\ spawns = 0
          /\ requests = 0

C26_Witness ==
    /\ ApJoined
    /\ ap.failed
    /\ ap.invoked = 1
    /\ starts_with(ap.error, "OpenAI API error")
    /\ ap.prompt.system_prompt = "Rewrite in capitals."
    /\ ap.result.tag = "Ok"

\* C27: for prompt id "raw" the system_prompt handed to process_text is the
\* empty string whatever the catalog stores for it, for every other id it is
\* the catalog's system_prompt unchanged, and "raw" is found whichever
\* catalog is loaded, the hard-coded fallback included.
C27_RawPassthrough ==
    /\ ap.pc \in {"spawned", "running"} =>
          ap.prompt_text = IF ap.prompt_id = "raw" THEN "" ELSE ap.prompt.system_prompt
    /\ ap.pc = "running" =>
          request.system_prompt = IF ap.prompt_id = "raw" THEN "" ELSE ap.prompt.system_prompt
    /\ (ApReturned /\ ap.prompt_id = "raw") => ap.result # Err("Prompt not found")

----------------------------------------------------------------------------
(* Properties of the persisted configuration *)

LastSaved == IF saved.some THEN saved.val ELSE AppConfig_default

\* C28: AppConfig::load returns the configuration saved last, or the default
\* when none was ever saved; a load that runs while a save is under way
\* returns the configuration from before or after that save, never the
\* defaults in place of a saved configuration.
C28_LoadSeesSavedConfig ==
    /\ main.pc = "idle" => load(config_file) = LastSaved
    /\ ap.pc \in {"spawned", "running"} => ap.config \in ap.expected

----------------------------------------------------------------------------
(* Properties of the global shortcut *)

\* C29: when update_global_shortcut returns Ok, exactly the new hotkey is
\* registered and persisted and every other persisted field is as before;
\* when it returns Err, the persisted configuration is unchanged and the
\* shortcut registered before the call is still registered.
C29_ShortcutMatchesConfig ==
    /\ hk.returned = "Ok" =>
          /\ registered = {hk.call.new_hotkey}
          /\ load(config_file) =
                [load(hk.call.file_before) EXCEPT !.global_hotkey = hk.call.new_hotkey]
    /\ hk.returned = "Err" =>
          /\ config_file = hk.call.file_before
          /\ registered = hk.call.registered_before

----------------------------------------------------------------------------
(* Properties of the main window *)

====
